---------------------------- MODULE Spec2Model ----------------------------
(***************************************************************************)
(* Model of .github/scripts/gpt-pr-bot.mjs: one run of main(), from the    *)
(* task check to the final comment or to the .catch handler.               *)
(*                                                                         *)
(* JavaScript strings are sequences of one-character strings, so that      *)
(* startsWith, length, includes, split and String.prototype.replace are    *)
(* computed, not assumed.  The working tree is a function from canonical   *)
(* paths (sequences of path segments) to nodes.  plan.changes is an        *)
(* immutable array that the for-of loop reads once, front to back: the     *)
(* model keeps its length and draws element i when the loop reads it.      *)
(***************************************************************************)
EXTENDS Integers, Sequences, FiniteSets, TLC

VARIABLES
  pc,       \* where main() stands
  task,     \* the task text after "/gpt"
  fs,       \* the working tree
  raw,      \* the model output (line 93)
  plan,     \* JSON.parse(raw) (line 94)
  idx,      \* number of elements of plan.changes the loop has read
  c,        \* the element the loop body is processing (line 101)
  verdict,  \* what the last iteration of the loop did with its element
  applied,  \* the applied records (line 100)
  writes,   \* the file writes performed, as the file system saw them
  calls,    \* the calls received by the collaborators
  outcome,  \* the return statement the run took
  err,      \* the error main() rejected with
  logged,   \* what was written to the console
  exitCode  \* the exit status of the process

vars == <<pc, task, fs, raw, plan, idx, c, verdict, applied, writes, calls,
          outcome, err, logged, exitCode>>

(***************************************************************************)
(* Bounds of the model.                                                    *)
(***************************************************************************)
MaxPlanLen == 2

(***************************************************************************)
(* Constants of the program.                                               *)
(***************************************************************************)
MaxPathLen == 200
MaxFiles == 5
MaxLines == 500

(***************************************************************************)
(* JavaScript values.                                                      *)
(***************************************************************************)
\* `undefined`: a missing property of a parsed JSON object.  No string of the
\* model equals it (strings hold one-character elements only).
Undefined == <<"undefined">>
\* JSON `null` as an element of plan.changes: reading a property of it throws.
Null == [path |-> Undefined, operation |-> "null", find |-> Undefined,
         content |-> Undefined, why |-> "w"]

\* !v for a string-or-undefined v: undefined and "" are falsy.
Falsy(v) == v = Undefined \/ v = <<>>

\* v ?? "" (lines 106, 110, 116)
OrEmpty(v) == IF v = Undefined THEN <<>> ELSE v

StartsWith(s, pre) == Len(s) >= Len(pre) /\ SubSeq(s, 1, Len(pre)) = pre

\* 1-based index of the first occurrence of t in s, 0 when there is none.
IndexOf(s, t) ==
  LET hits == {k \in 1..(Len(s) - Len(t) + 1) : SubSeq(s, k, k + Len(t) - 1) = t}
  IN IF hits = {} THEN 0 ELSE CHOOSE k \in hits : \A j \in hits : k <= j

\* includes() answering yes whatever the text holds.
Includes_Always(s, t) == TRUE

\* s.includes(t) (line 115)
Includes(s, t) == IndexOf(s, t) # 0

HasDollar(r) == \E k \in 1..Len(r) : r[k] = "$"

\* The character U+0060 (grave accent), which a TLA+ string cannot hold.
Backtick == "U+0060"

\* GetSubstitution of ECMAScript for a string pattern (no capture groups):
\* $$ -> $, $& -> the match, $ U+0060 -> the text before it, $' -> the text
\* after it; any other $ stays as it is.
RECURSIVE GetSubstitution(_, _, _, _)
GetSubstitution(r, matched, before, after) ==
  IF ~HasDollar(r) THEN r
  ELSE IF r[1] = "$" /\ Len(r) >= 2 /\ r[2] \in {"$", "&", Backtick, "'"}
    THEN (CASE r[2] = "$" -> <<"$">>
            [] r[2] = "&" -> matched
            [] r[2] = Backtick -> before
            [] r[2] = "'" -> after)
         \o GetSubstitution(SubSeq(r, 3, Len(r)), matched, before, after)
    ELSE <<r[1]>> \o GetSubstitution(Tail(r), matched, before, after)

\* old.replace(find, content) with a string `find` (line 116)
StringReplace(old, find, content) ==
  LET pos == IndexOf(old, find) IN
  IF pos = 0 THEN old
  ELSE LET before == SubSeq(old, 1, pos - 1)
           after  == SubSeq(old, pos + Len(find), Len(old))
       IN before \o GetSubstitution(content, find, before, after) \o after

\* s.split(sep) for a one-character separator
RECURSIVE Split(_, _)
Split(s, sep) ==
  LET hits == {k \in 1..Len(s) : s[k] = sep} IN
  IF hits = {} THEN <<s>>
  ELSE LET k == CHOOSE k \in hits : \A j \in hits : k <= j
       IN <<SubSeq(s, 1, k - 1)>> \o Split(SubSeq(s, k + 1, Len(s)), sep)

\* segs.join(sep)
RECURSIVE Join(_, _)
Join(segs, sep) ==
  IF segs = <<>> THEN <<>>
  ELSE IF Len(segs) = 1 THEN segs[1]
  ELSE segs[1] \o <<sep>> \o Join(Tail(segs), sep)

Front(s) == SubSeq(s, 1, Len(s) - 1)


(***************************************************************************)
(* The working tree.  A tree maps the canonical path of every existing     *)
(* node (a sequence of segments below the working directory) to the node;  *)
(* the working directory itself is <<>>.                                   *)
(***************************************************************************)
File(data) == [type |-> "file", data |-> data]
Dir == [type |-> "dir", data |-> <<>>]

\* How the operating system resolves a relative path: empty and "."
\* segments are skipped, ".." leaves the directory entered last.
RECURSIVE Normalize(_, _)
Normalize(segs, acc) ==
  IF segs = <<>> THEN acc
  ELSE LET h == Head(segs) IN
       IF h = <<>> \/ h = <<".">> THEN Normalize(Tail(segs), acc)
       ELSE IF h = <<".", ".">>
         THEN Normalize(Tail(segs), IF acc = <<>> THEN acc ELSE Front(acc))
         ELSE Normalize(Tail(segs), Append(acc, h))

Resolve(p) == Normalize(Split(p, "/"), <<>>)

IsDir(tree, cp) == cp = <<>> \/ (cp \in DOMAIN tree /\ tree[cp].type = "dir")
IsFile(tree, cp) == cp \in DOMAIN tree /\ tree[cp].type = "file"

\* fs.existsSync(p)
existsSync(tree, p) == p # <<>> /\ (Resolve(p) = <<>> \/ Resolve(p) \in DOMAIN tree)

Prefixes(cp) == {SubSeq(cp, 1, k) : k \in 1..Len(cp)}

\* fs.mkdirSync(d, {recursive: true}): fails when a component is a file.
MkdirOk(tree, d) == \A x \in Prefixes(Resolve(d)) : x \notin DOMAIN tree \/ tree[x].type = "dir"
MkdirP(tree, d) ==
  [x \in DOMAIN tree \cup Prefixes(Resolve(d)) |-> IF x \in DOMAIN tree THEN tree[x] ELSE Dir]

\* path.split("/").slice(0,-1).join("/") (line 34)
DirName(path) == Join(Front(Split(path, "/")), "/")

\* ensureDir(path) (line 34): the tree afterwards, and whether mkdirSync threw.
ensureDir(tree, path) ==
  LET d == DirName(path) IN
  IF d # <<>> /\ ~existsSync(tree, d)
    THEN IF MkdirOk(tree, d) THEN [ok |-> TRUE, fs |-> MkdirP(tree, d)]
                             ELSE [ok |-> FALSE, fs |-> tree]
    ELSE [ok |-> TRUE, fs |-> tree]

\* fs.writeFileSync(p, data) and fs.appendFileSync(p, data) succeed when the
\* parent is a directory and p itself is not one (else ENOENT, ENOTDIR, EISDIR).
WriteOk(tree, p) ==
  LET cp == Resolve(p) IN cp # <<>> /\ ~IsDir(tree, cp) /\ IsDir(tree, Front(cp))

Put(tree, cp, data) ==
  [x \in DOMAIN tree \cup {cp} |-> IF x = cp THEN File(data) ELSE tree[x]]

writeFileSync(tree, p, data) == Put(tree, Resolve(p), data)

appendFileSync(tree, p, data) ==
  LET cp == Resolve(p) IN
  Put(tree, cp, (IF IsFile(tree, cp) THEN tree[cp].data ELSE <<>>) \o data)

\* fs.readFileSync(p, "utf8") succeeds on a regular file.
ReadOk(tree, p) == IsFile(tree, Resolve(p))
readFileSync(tree, p) == tree[Resolve(p)].data

\* Number of lines of a text.
Lines(s) == IF s = <<>> THEN 0 ELSE 1 + Cardinality({k \in 1..Len(s) : s[k] = "\n"})

(***************************************************************************)
(* Inputs: the strings a plan may carry and the tree the run starts from.  *)
(***************************************************************************)
\* "a.md"
P_readme == <<"a", ".", "m", "d">>
\* "docs/n"
P_nested == <<"d", "o", "c", "s", "/", "n">>
\* "a.md/x"
P_under_file == <<"a", ".", "m", "d", "/", "x">>
\* ".env"
P_env == <<".", "e", "n", "v">>
\* "package-lock.json"
P_lock == <<"p", "a", "c", "k", "a", "g", "e", "-", "l", "o", "c", "k", ".", "j", "s", "o", "n">>
\* ".git/config"
P_git == <<".", "g", "i", "t", "/", "c", "o", "n", "f", "i", "g">>
\* "./.git/config"
P_dotgit == <<".", "/", ".", "g", "i", "t", "/", "c", "o", "n", "f", "i", "g">>
\* ".git"
DotGit == <<".", "g", "i", "t">>
\* "abab"
S_abab == <<"a", "b", "a", "b">>
\* "b"
S_b == <<"b">>
\* "z"
S_z == <<"z">>
\* "c"
S_c == <<"c">>
\* "g"
S_g == <<"g">>
\* "$$", "$&", "$" U+0060, "$'" in a row
S_subst == <<"$", "$", "$", "&", "$", Backtick, "$", "'">>

\* A path of 201 characters and a text of 501 lines.
P_long == [k \in 1..201 |-> "p"]
S_big == [k \in 1..501 |-> "\n"]

Paths == {Undefined, <<>>, P_readme, P_nested, P_under_file, P_env,
          P_lock, P_git, P_dotgit, P_long}
Kinds == {"create", "append", "replace", "delete"}
Finds == {Undefined, S_b, S_z}
Contents == {Undefined, S_c, S_subst, S_big}
Whys == {"w"}

\* The elements plan.changes may hold: JSON null, or an object of the shape
\* the prompt asks for (lines 71-74), `find` being given for replace only.
Changes ==
  {Null} \cup
  {e \in [path : Paths, operation : Kinds, find : Finds, content : Contents, why : Whys] :
     e.operation # "replace" => e.find = Undefined}

\* The working tree at the start of the run: a checkout with a tracked
\* file, a secrets file and the repository's metadata directory.
InitialTree ==
  LET seg(x) == Resolve(x) IN
  (seg(P_readme) :> File(S_abab)) @@ (seg(P_env) :> File(S_b))
  @@ (seg(DotGit) :> Dir) @@ (seg(P_git) :> File(S_g))


(***************************************************************************)
(* The model output and its parsing (lines 93-94).                         *)
(***************************************************************************)
\* What chat.choices?.[0]?.message?.content may be: nothing, text that is
\* not JSON, the JSON values null and 5, an object without `changes`, an
\* object whose `changes` is a string, an object whose `changes` is an array.
Completions ==
  {[kind |-> k, len |-> 0] : k \in {"empty", "notjson", "null", "number", "object", "badchanges"}}
  \cup {[kind |-> "plan", len |-> n] : n \in 0..MaxPlanLen}

\* content || "{}" (line 93)
RawOf(content) == IF content.kind = "empty" THEN [kind |-> "object", len |-> 0] ELSE content

\* JSON.parse(raw): whether it returns, and the value it returns.
JSONParse(r) ==
  [ok |-> r.kind # "notjson",
   type |-> CASE r.kind = "null" -> "null"
              [] r.kind = "number" -> "number"
              [] OTHER -> "object",
   changes |-> CASE r.kind = "plan" -> "array"
                 [] r.kind = "badchanges" -> "string"
                 [] OTHER -> "undefined",
   length |-> IF r.kind = "plan" THEN r.len ELSE 0]

NoRaw == [kind |-> "none", len |-> 0]
NoPlan == [ok |-> FALSE, type |-> "none", changes |-> "undefined", length |-> 0]
NoChange == [path |-> Undefined, operation |-> "none", find |-> Undefined,
             content |-> Undefined, why |-> "w"]

(***************************************************************************)
(* The decisions of main().                                                *)
(***************************************************************************)
\* Line 103 without the prefix test.
Rejected_NoPrefix(p) == Falsy(p) \/ Len(p) > MaxPathLen

\* !p || p.startsWith(".git") || p.length>200 (line 103)
Rejected(p) == Falsy(p) \/ StartsWith(p, DotGit) \/ Len(p) > MaxPathLen

\* !Array.isArray(plan.changes) || plan.changes.length === 0 (line 97)
NoChanges(pl) == pl.changes # "array" \/ pl.length = 0

\* Line 120 without the test.
NothingApplied_Never(recs) == FALSE

\* applied.length === 0 (line 120)
NothingApplied(recs) == Len(recs) = 0

\* Line 110 without the separating newline.
AppendData_NoNewline(content) == OrEmpty(content)

\* "\n" + (c.content ?? "") (line 110)
AppendData(content) == <<"\n">> \o OrEmpty(content)

\* The body of the comment each return statement posts (lines 95, 98, 120, 130).
CommentBody ==
  CASE outcome = "ParseFailed" -> [msg |-> "I couldn't parse a valid plan.", quoted |-> {raw}, n |-> 0]
    [] outcome = "NoChanges" -> [msg |-> "No safe changes proposed.", quoted |-> {}, n |-> 0]
    [] outcome = "NoEdits" -> [msg |-> "Plan produced no applicable edits.", quoted |-> {}, n |-> 0]
    [] OTHER -> [msg |-> "Created helper PR", quoted |-> {}, n |-> Len(applied)]

Call(op, arg) == [op |-> op, arg |-> arg]
NoArg == [msg |-> "", quoted |-> {}, n |-> 0]

(***************************************************************************)
(* The run.                                                                *)
(***************************************************************************)
Init ==
  /\ pc = "start"
  /\ task \in {"", "task"}
  /\ fs = InitialTree
  /\ raw = NoRaw
  /\ plan = NoPlan
  /\ idx = 0
  /\ c = NoChange
  /\ verdict = "none"
  /\ applied = <<>>
  /\ writes = <<>>
  /\ calls = <<>>
  /\ outcome = "none"
  /\ err = "none"
  /\ logged = <<>>
  /\ exitCode = -1

\* An awaited call or a synchronous statement throws: main() rejects.
Throw(e) == pc' = "rejected" /\ err' = e

\* An awaited collaborator call: it is received, then resolves or rejects.
Await(at, op, arg, next) ==
  /\ pc = at
  /\ calls' = Append(calls, Call(op, arg))
  /\ \E ok \in BOOLEAN :
       IF ok THEN pc' = next /\ err' = err ELSE Throw(op)
  /\ UNCHANGED <<task, fs, raw, plan, idx, c, verdict, applied, writes, outcome,
                 logged, exitCode>>

\* Lines 54-55
Start ==
  /\ pc = "start"
  /\ IF task = ""
       THEN pc' = "done" /\ logged' = Append(logged, "No task after /gpt") /\ exitCode' = 0
       ELSE pc' = "getPR" /\ UNCHANGED <<logged, exitCode>>
  /\ UNCHANGED <<task, fs, raw, plan, idx, c, verdict, applied, writes, calls,
                 outcome, err>>

\* Line 57
GetPR == Await("getPR", "getPullRequest", NoArg, "config")

\* Lines 62-63
GitConfig == Await("config", "gitConfig", NoArg, "branch")

\* Line 64
CreateBranch == Await("branch", "createBranch", NoArg, "context")

\* Lines 66-67: git ls-files and the reading of the sampled files
Context == Await("context", "listFiles", NoArg, "infer")

\* Lines 87-93
Infer ==
  /\ pc = "infer"
  /\ calls' = Append(calls, Call("createCompletion", NoArg))
  /\ \/ /\ Throw("createCompletion")
        /\ raw' = raw
     \/ /\ \E content \in Completions : raw' = RawOf(content)
        /\ pc' = "parse"
        /\ err' = err
  /\ UNCHANGED <<task, fs, plan, idx, c, verdict, applied, writes, outcome, logged,
                 exitCode>>

\* Lines 94-98
Parse ==
  /\ pc = "parse"
  /\ LET v == JSONParse(raw) IN
     IF ~v.ok
       THEN plan' = plan /\ outcome' = "ParseFailed" /\ pc' = "comment" /\ err' = err
     ELSE IF v.type = "null"
       THEN plan' = v /\ outcome' = outcome /\ Throw("TypeError")
     ELSE IF NoChanges(v)
       THEN plan' = v /\ outcome' = "NoChanges" /\ pc' = "comment" /\ err' = err
       ELSE plan' = v /\ outcome' = outcome /\ pc' = "loop" /\ err' = err
  /\ UNCHANGED <<task, fs, raw, idx, c, verdict, applied, writes, calls, logged,
                 exitCode>>

\* Line 101: the loop reads the next element, or ends.
LoopHead ==
  /\ pc = "loop"
  /\ IF idx < plan.length
       THEN /\ \E e \in Changes : c' = e
            /\ idx' = idx + 1
            /\ verdict' = "none"
            /\ pc' = "body"
       ELSE /\ verdict' = "none"
            /\ pc' = "decide"
            /\ UNCHANGED <<c, idx>>
  /\ UNCHANGED <<task, fs, raw, plan, applied, writes, calls, outcome, err, logged,
                 exitCode>>

\* A skip that pushes a record for the skipped element.
Skip_Records(v) ==
  /\ verdict' = v
  /\ pc' = "loop"
  /\ applied' = Append(applied, [path |-> c.path, op |-> "skipped", why |-> c.why])
  /\ UNCHANGED <<fs, writes, err>>

\* The loop body leaves the tree alone (continue, or no branch taken).
Skip(v) ==
  /\ verdict' = v
  /\ pc' = "loop"
  /\ UNCHANGED <<fs, applied, writes, err>>

\* The loop body throws, after leaving the tree as `tree`.
Fail(tree, e) ==
  /\ verdict' = "threw"
  /\ fs' = tree
  /\ Throw(e)
  /\ UNCHANGED <<applied, writes>>

\* The loop body writing `tree` without pushing a record.
Mutate_NoRecord(tree, kind, data) ==
  /\ verdict' = kind
  /\ fs' = tree
  /\ applied' = applied
  /\ writes' = Append(writes, [path |-> c.path, op |-> kind, lines |-> Lines(data)])
  /\ pc' = "loop"
  /\ err' = err

\* The loop body wrote `tree` and pushed its record.
Mutate(tree, kind, data) ==
  /\ verdict' = kind
  /\ fs' = tree
  /\ applied' = Append(applied, [path |-> c.path, op |-> kind, why |-> c.why])
  /\ writes' = Append(writes, [path |-> c.path, op |-> kind, lines |-> Lines(data)])
  /\ pc' = "loop"
  /\ err' = err

\* Lines 105-107 with an existence guard: an existing file is left alone.
Create_NoOverwrite ==
  LET p == c.path
      made == ensureDir(fs, p)
      data == OrEmpty(c.content)
  IN IF existsSync(fs, p) THEN Skip("create_exists")
     ELSE IF ~made.ok THEN Fail(fs, "mkdirSync")
     ELSE IF ~WriteOk(made.fs, p) THEN Fail(made.fs, "writeFileSync")
     ELSE Mutate(writeFileSync(made.fs, p, data), "create", data)

\* Lines 105-107
Create ==
  LET p == c.path
      made == ensureDir(fs, p)
      data == OrEmpty(c.content)
  IN IF ~made.ok THEN Fail(fs, "mkdirSync")
     ELSE IF ~WriteOk(made.fs, p) THEN Fail(made.fs, "writeFileSync")
     ELSE Mutate(writeFileSync(made.fs, p, data), "create", data)

\* Lines 108-111 without the existence test of line 109.
AppendOp_Creates ==
  LET p == c.path IN
  IF ~WriteOk(fs, p) THEN Fail(fs, "appendFileSync")
  ELSE Mutate(appendFileSync(fs, p, AppendData(c.content)), "append", OrEmpty(c.content))

\* Lines 108-111 testing existence against the tree the run started from.
AppendOp_Stale ==
  LET p == c.path IN
  IF ~existsSync(InitialTree, p) THEN Skip("append_missing")
  ELSE IF ~WriteOk(fs, p) THEN Fail(fs, "appendFileSync")
  ELSE Mutate(appendFileSync(fs, p, AppendData(c.content)), "append", OrEmpty(c.content))

\* Lines 108-111
AppendOp ==
  LET p == c.path IN
  IF ~existsSync(fs, p) THEN Skip("append_missing")
  ELSE IF ~WriteOk(fs, p) THEN Fail(fs, "appendFileSync")
  ELSE Mutate(appendFileSync(fs, p, AppendData(c.content)), "append", OrEmpty(c.content))

\* Lines 112-117
Replace ==
  LET p == c.path IN
  IF ~existsSync(fs, p) THEN Skip("replace_missing")
  ELSE IF Falsy(c.find) THEN Skip("replace_nofind")
  ELSE IF ~ReadOk(fs, p) THEN Fail(fs, "readFileSync")
  ELSE LET old == readFileSync(fs, p) IN
       IF ~Includes(old, c.find) THEN Skip("replace_absent")
       ELSE Mutate(writeFileSync(fs, p, StringReplace(old, c.find, OrEmpty(c.content))),
                   "replace", OrEmpty(c.content))

\* Lines 102-118: one iteration of the loop.
Body ==
  /\ pc = "body"
  /\ IF c.operation = "null" THEN Fail(fs, "TypeError")
     ELSE IF Rejected(c.path) THEN Skip("rejected")
     ELSE CASE c.operation = "create" -> Create
            [] c.operation = "append" -> AppendOp
            [] c.operation = "replace" -> Replace
            [] OTHER -> Skip("ignored")
  /\ c' = NoChange
  /\ UNCHANGED <<task, raw, plan, idx, calls, outcome, logged, exitCode>>

\* Line 120
Decide ==
  /\ pc = "decide"
  /\ IF NothingApplied(applied)
       THEN outcome' = "NoEdits" /\ pc' = "comment"
       ELSE outcome' = "Applied" /\ pc' = "add"
  /\ UNCHANGED <<task, fs, raw, plan, idx, c, verdict, applied, writes, calls, err,
                 logged, exitCode>>

\* Line 122
GitAdd == Await("add", "gitAdd", NoArg, "commit")

\* Line 123
Commit == Await("commit", "commitAll", NoArg, "push")

\* Line 124
Push == Await("push", "push", NoArg, "openPR")

\* Lines 126-129
OpenPR == Await("openPR", "openChangeRequest", [msg |-> "body", quoted |-> {}, n |-> Len(applied)], "comment")

\* Lines 51, 95, 98, 120, 130: the comment, after which main() returns.
Comment ==
  /\ pc = "comment"
  /\ calls' = Append(calls, Call("postComment", CommentBody))
  /\ \E ok \in BOOLEAN :
       IF ok THEN pc' = "done" /\ err' = err /\ exitCode' = 0
             ELSE Throw("postComment") /\ exitCode' = exitCode
  /\ UNCHANGED <<task, fs, raw, plan, idx, c, verdict, applied, writes, outcome, logged>>

\* A handler that restores the tree the run started from.
Catch_Rollback ==
  /\ pc = "rejected"
  /\ fs' = InitialTree
  /\ logged' = Append(logged, err)
  /\ exitCode' = 0
  /\ pc' = "exited"
  /\ UNCHANGED <<task, raw, plan, idx, c, verdict, applied, writes, calls, outcome, err>>

\* A handler that lets the rejection end the process (exit status 1).
Catch_Crash ==
  /\ pc = "rejected"
  /\ logged' = logged
  /\ exitCode' = 1
  /\ pc' = "exited"
  /\ UNCHANGED <<task, fs, raw, plan, idx, c, verdict, applied, writes, calls, outcome, err>>

\* Line 132
Catch ==
  /\ pc = "rejected"
  /\ logged' = Append(logged, err)
  /\ exitCode' = 0
  /\ pc' = "exited"
  /\ UNCHANGED <<task, fs, raw, plan, idx, c, verdict, applied, writes, calls, outcome, err>>

Next ==
  \/ Start \/ GetPR \/ GitConfig \/ CreateBranch \/ Context \/ Infer \/ Parse
  \/ LoopHead \/ Body \/ Decide \/ GitAdd \/ Commit \/ Push \/ OpenPR \/ Comment
  \/ Catch

Spec == Init /\ [][Next]_vars


(***************************************************************************)
(* Vocabulary of the claims.                                               *)
(***************************************************************************)
Ended == pc \in {"done", "exited"}

CallOps == {calls[k].op : k \in 1..Len(calls)}

\* The operations of the version-control collaborator.
VersionControlOps == {"createBranch", "gitAdd", "commitAll", "push", "openChangeRequest",
                      "postComment"}
\* Those that materialise the change: commit all (git add, git commit), push,
\* open the change request.
ChangeOps == {"gitAdd", "commitAll", "push", "openChangeRequest"}

\* The files the writes of this run went to.
MutatedFiles == {Resolve(writes[k].path) : k \in 1..Len(writes)}

RECURSIVE SumLines(_)
SumLines(ws) == IF ws = <<>> THEN 0 ELSE Head(ws).lines + SumLines(Tail(ws))

\* The lockfile and the secrets file of the tree.
ProtectedFiles == {Resolve(P_lock), Resolve(P_env)}

SameFile(t1, t2, cp) ==
  /\ cp \in DOMAIN t1 <=> cp \in DOMAIN t2
  /\ cp \in DOMAIN t1 => t1[cp] = t2[cp]

C2_GlobalCaps ==
  /\ Cardinality(MutatedFiles) <= MaxFiles
  /\ SumLines(writes) <= MaxLines

(***************************************************************************)
(* C3.  As claimed: the lockfile and the secrets file are never created,   *)
(* appended to or replaced in: no record is applied on them and they are   *)
(* as they were at the start of the run.                                   *)
(***************************************************************************)
C3_ProtectedFilesUntouched ==
  /\ \A cp \in ProtectedFiles : SameFile(fs, InitialTree, cp)
  /\ \A k \in 1..Len(applied) : Resolve(applied[k].path) \notin ProtectedFiles

(***************************************************************************)
(* C4.  An operation whose path is missing, empty, longer than 200         *)
(* characters or starts with ".git" changes no file and adds no record,    *)
(* whatever its other fields are.                                          *)
(***************************************************************************)
C4_BadPath(p) ==
  \/ p = Undefined
  \/ Len(p) = 0
  \/ Len(p) > 200
  \/ (Len(p) >= 4 /\ p[1] = "." /\ p[2] = "g" /\ p[3] = "i" /\ p[4] = "t")

C4_BadPathNeverApplied ==
  [][(pc = "body" /\ C4_BadPath(c.path))
       => (fs' = fs /\ applied' = applied /\ writes' = writes)]_vars

C4_Witness == pc = "loop" /\ verdict = "rejected" /\ idx = 2 /\ Len(applied) = 1

(***************************************************************************)
(* C5.  As claimed: a model output that does not deserialize to an object  *)
(* with a non-empty `changes` array ends the run as MalformedPlan or       *)
(* EmptyPlan, with the working tree untouched.                             *)
(***************************************************************************)
C5_BadOutputEndsMalformedOrEmpty ==
  (Ended /\ raw # NoRaw /\ ~(raw.kind = "plan" /\ raw.len > 0))
    => /\ outcome \in {"ParseFailed", "NoChanges"}
       /\ fs = InitialTree /\ applied = <<>> /\ writes = <<>>

(***************************************************************************)
(* C6.  As claimed: a model output that is not JSON, is not an object or   *)
(* has no `changes` array gets a comment that quotes the raw output        *)
(* (in a run where no collaborator call fails).                            *)
(***************************************************************************)
C6_MalformedCommentQuotesRaw ==
  (Ended /\ raw # NoRaw /\ raw.kind # "plan" /\ err \in {"none", "TypeError"})
    => \E k \in 1..Len(calls) :
         calls[k].op = "postComment" /\ raw \in calls[k].arg.quoted

(***************************************************************************)
(* C7.  As claimed: a failing operation never aborts the run: when the run *)
(* of a non-empty plan has ended, every operation of the plan was          *)
(* processed and the run reached NoApplicableEdits or Applied.             *)
(***************************************************************************)
C7_FailureNeverAborts ==
  (Ended /\ plan.changes = "array" /\ plan.length > 0)
    => (idx = plan.length /\ verdict # "threw" /\ outcome \in {"NoEdits", "Applied"})

(***************************************************************************)
(* C8.  As claimed: an applied Replace leaves the file equal to the text   *)
(* before the first occurrence of `find`, then `content` verbatim, then    *)
(* the text after that occurrence.                                         *)
(***************************************************************************)
C8_ReplaceVerbatim ==
  [][(pc = "body" /\ verdict' = "replace")
       => LET cp == Resolve(c.path)
              old == fs[cp].data
              pos == CHOOSE k \in 1..Len(old) :
                       /\ SubSeq(old, k, k + Len(c.find) - 1) = c.find
                       /\ \A j \in 1..(k - 1) : SubSeq(old, j, j + Len(c.find) - 1) # c.find
          IN fs'[cp].data = SubSeq(old, 1, pos - 1) \o OrEmpty(c.content)
                              \o SubSeq(old, pos + Len(c.find), Len(old))]_vars

(***************************************************************************)
(* C9.  A Replace whose target file does not exist, or does not contain    *)
(* `find`, adds no applied record and leaves the whole tree as it was.     *)
(***************************************************************************)
C9_FindAbsent(tree, e) ==
  LET cp == Resolve(e.path) IN
  \/ ~IsFile(tree, cp)
  \/ e.find = Undefined
  \/ \A k \in 1..Len(tree[cp].data) :
       SubSeq(tree[cp].data, k, k + Len(e.find) - 1) # e.find

C9_ReplaceAbsentIsNoOp ==
  [][(pc = "body" /\ c.operation = "replace" /\ c.path # Undefined /\ C9_FindAbsent(fs, c))
       => (fs' = fs /\ applied' = applied /\ writes' = writes)]_vars

C9_Witness == pc = "loop" /\ verdict = "replace_absent" /\ idx = 2 /\ Len(applied) = 1

(***************************************************************************)
(* C10.  An Append on a path where nothing exists adds no applied record   *)
(* and creates no file: the tree is the same before and after.             *)
(***************************************************************************)
C10_AppendNeverCreates ==
  [][(pc = "body" /\ c.operation = "append" /\ c.path # Undefined
        /\ Resolve(c.path) \notin DOMAIN fs)
       => (DOMAIN fs' = DOMAIN fs /\ fs' = fs /\ applied' = applied)]_vars

C10_Witness == pc = "loop" /\ verdict = "append_missing" /\ idx = 2 /\ Len(applied) = 1


(***************************************************************************)
(* C11.  As claimed: in a run where no collaborator call fails, commit,    *)
(* push and open change request are executed, once each and in that order, *)
(* if and only if at least one operation was applied.                      *)
(***************************************************************************)
CollaboratorOps == {"getPullRequest", "gitConfig", "createBranch", "listFiles",
                    "createCompletion", "gitAdd", "commitAll", "push",
                    "openChangeRequest", "postComment"}

IsMaterialise(call) == call.op \in {"commitAll", "push", "openChangeRequest"}

Materialised ==
  LET done == SelectSeq(calls, IsMaterialise) IN
  /\ Len(done) = 3
  /\ done[1].op = "commitAll" /\ done[2].op = "push" /\ done[3].op = "openChangeRequest"

C11_MaterialisedIffApplied ==
  (Ended /\ err \notin CollaboratorOps)
    => /\ Materialised <=> Len(applied) >= 1
       /\ ~Materialised => SelectSeq(calls, IsMaterialise) = <<>>

(***************************************************************************)
(* C12.  The applied records and the file writes of the run correspond     *)
(* one to one and in order: the tree changes only by a write of the loop   *)
(* body to the path of the operation being processed, each write has its   *)
(* record with the same path and kind, each record has its write.          *)
(***************************************************************************)
C12_Corresponds(recs, ws) ==
  /\ Len(recs) = Len(ws)
  /\ \A k \in 1..Len(ws) : recs[k].path = ws[k].path /\ recs[k].op = ws[k].op

C12_RecordsMatchWrites ==
  [][/\ fs' # fs =>
          /\ pc = "body"
          /\ Len(writes') = Len(writes) + 1
          /\ writes'[Len(writes')].path = c.path
          /\ writes'[Len(writes')].op = c.operation
          /\ \A cp \in DOMAIN fs :
               (cp \in DOMAIN fs' /\ fs'[cp] = fs[cp]) \/ cp = Resolve(c.path)
          /\ \A cp \in DOMAIN fs' \ DOMAIN fs : cp \in Prefixes(Resolve(c.path))
     /\ writes' # writes => SubSeq(writes', 1, Len(writes)) = writes
     /\ C12_Corresponds(applied', writes')]_vars

C12_Witness ==
  /\ pc = "loop" /\ Len(applied) = 2 /\ Len(writes) = 2
  /\ applied[1].op = "create" /\ applied[2].op = "replace"


(***************************************************************************)
(* C13.  As claimed: every operation that passes admission (a usable path, *)
(* a recognised kind, a `find` for replace) gets exactly one record, also  *)
(* when the Applier skips it.                                              *)
(***************************************************************************)
C13_Admitted(e) ==
  /\ e.operation \in {"create", "append", "replace"}
  /\ ~C4_BadPath(e.path)
  /\ e.operation = "replace" => (e.find # Undefined /\ Len(e.find) > 0)

C13_Applicable(tree, e) ==
  /\ C13_Admitted(e)
  /\ \/ e.operation = "create"
     \/ e.operation = "append" /\ Resolve(e.path) \in DOMAIN tree
     \/ e.operation = "replace" /\ ~C9_FindAbsent(tree, e)

C14_CreateThenAppend(recs) ==
  /\ Len(recs) = 2
  /\ recs[1].op = "create" /\ recs[2].op = "append"
  /\ Resolve(recs[1].path) = Resolve(recs[2].path)
  /\ Resolve(recs[1].path) \notin DOMAIN InitialTree

C14_AppliedInOrder ==
  [][pc = "body" =>
       LET cp == Resolve(c.path) IN
       /\ verdict' = "create" => fs'[cp].data = OrEmpty(c.content)
       /\ (/\ c.operation = "append" /\ ~C4_BadPath(c.path)
           /\ Len(applied) >= 1
           /\ applied[Len(applied)].op = "create"
           /\ Resolve(applied[Len(applied)].path) = cp)
            => /\ applied' = Append(applied, [path |-> c.path, op |-> "append", why |-> c.why])
               /\ fs'[cp].data = fs[cp].data \o <<"\n">> \o OrEmpty(c.content)
       /\ Len(applied') >= Len(applied) /\ SubSeq(applied', 1, Len(applied)) = applied
       /\ C14_CreateThenAppend(applied')
            => \E c1, c2 \in Contents :
                 fs'[Resolve(applied'[1].path)].data = OrEmpty(c1) \o <<"\n">> \o OrEmpty(c2)]_vars

C14_Witness ==
  /\ pc = "loop" /\ C14_CreateThenAppend(applied)
  /\ applied[1].path = P_nested
  /\ fs[Resolve(P_nested)].data = S_c \o <<"\n">> \o S_c


(***************************************************************************)
(* C15.  As claimed: no run writes inside the metadata directory .git,     *)
(* whatever string names the path: the nodes below .git are as they were   *)
(* at the start and no write went there.                                   *)
(***************************************************************************)
InsideDotGit(cp) == Len(cp) >= 1 /\ cp[1] = DotGit

C15_MetadataUntouched ==
  /\ \A cp \in DOMAIN fs \cup DOMAIN InitialTree :
       InsideDotGit(cp) => SameFile(fs, InitialTree, cp)
  /\ \A k \in 1..Len(writes) : ~InsideDotGit(Resolve(writes[k].path))

(***************************************************************************)
(* C16.  When a step fails after operations were applied, the writes       *)
(* already made stay in the tree, the failed call is not made again and    *)
(* no later step runs: the only step left is the handler of line 132.      *)
(***************************************************************************)
Count(op) == Len(SelectSeq(calls, LAMBDA call : call.op = op))

C16_NoRollbackNoRetry ==
  [][pc' \in {"rejected", "exited"} =>
       /\ \A cp \in DOMAIN fs : cp \in DOMAIN fs' /\ fs'[cp] = fs[cp]
       /\ applied' = applied /\ writes' = writes
       /\ pc = "rejected" => (pc' = "exited" /\ fs' = fs /\ calls' = calls)
       /\ err' \in CollaboratorOps =>
            LET sent == calls' IN
            /\ sent[Len(sent)].op = err'
            /\ Len(SelectSeq(sent, LAMBDA call : call.op = err')) = 1]_vars

C16_Witness ==
  /\ pc = "exited" /\ err = "push" /\ Len(applied) = 2
  /\ fs[Resolve(P_readme)].data # S_abab
  /\ "openChangeRequest" \notin CallOps


(***************************************************************************)
(* C17.  Every run terminates, with exit status 0, whatever the            *)
(* collaborators do, and a failure that ended it was written to the        *)
(* console.  Termination is shown by a variant: every step of main()       *)
(* strictly decreases a natural number and leads to a point of the program *)
(* from which a step is defined or at which the process has ended, so a    *)
(* run that keeps taking its steps ends after at most Measure steps.       *)
(***************************************************************************)
Labels == {"start", "getPR", "config", "branch", "context", "infer", "parse", "loop",
           "body", "decide", "add", "commit", "push", "openPR", "comment", "rejected"}

Measure ==
  LET loopTop == 8 + 2 * MaxPlanLen IN
  CASE pc \in {"done", "exited"} -> 0
    [] pc = "rejected" -> 1
    [] pc = "comment" -> 2
    [] pc = "openPR" -> 3
    [] pc = "push" -> 4
    [] pc = "commit" -> 5
    [] pc = "add" -> 6
    [] pc = "decide" -> 7
    [] pc = "loop" -> 8 + 2 * (plan.length - idx)
    [] pc = "body" -> 9 + 2 * (plan.length - idx)
    [] pc = "parse" -> loopTop + 1
    [] pc = "infer" -> loopTop + 2
    [] pc = "context" -> loopTop + 3
    [] pc = "branch" -> loopTop + 4
    [] pc = "config" -> loopTop + 5
    [] pc = "getPR" -> loopTop + 6
    [] pc = "start" -> loopTop + 7

C17_TerminatesCleanly ==
  [][/\ Measure' < Measure /\ Measure' >= 0
     /\ pc' \in Labels \cup {"done", "exited"}
     /\ pc' \in {"done", "exited"} =>
          /\ exitCode' = 0
          /\ err' # "none" => (pc' = "exited" /\ logged' = <<err'>>)]_vars

C17_Witness ==
  /\ pc = "exited" /\ exitCode = 0
  /\ err = "openChangeRequest" /\ logged = <<"openChangeRequest">>


(***************************************************************************)
(* C18.  A Create on an admitted path whose write succeeds is applied      *)
(* whether or not the file exists: afterwards the file holds exactly       *)
(* `content` ("" when absent), its parent directories exist, every other   *)
(* node is as before and one record of kind create is appended.            *)
(***************************************************************************)
C18_CreateOverwrites ==
  [][(pc = "body" /\ c.operation = "create" /\ ~C4_BadPath(c.path) /\ verdict' # "threw")
       => LET cp == Resolve(c.path)
              text == IF c.content = Undefined THEN <<>> ELSE c.content
          IN /\ cp \in DOMAIN fs' /\ fs'[cp] = [type |-> "file", data |-> text]
             /\ \A k \in 1..(Len(cp) - 1) :
                  SubSeq(cp, 1, k) \in DOMAIN fs' /\ fs'[SubSeq(cp, 1, k)].type = "dir"
             /\ \A x \in DOMAIN fs \ {cp} : x \in DOMAIN fs' /\ fs'[x] = fs[x]
             /\ DOMAIN fs' \subseteq DOMAIN fs \cup Prefixes(cp)
             /\ applied' = Append(applied, [path |-> c.path, op |-> "create", why |-> c.why])]_vars

C18_Witness ==
  /\ pc = "loop" /\ verdict = "create" /\ Len(applied) = 2
  /\ applied[1].path = P_nested /\ applied[1].op = "create"
  /\ applied[2].path = P_readme /\ applied[2].op = "create"
  /\ fs[Resolve(P_readme)].data = <<>>
  /\ fs[<<<<"d", "o", "c", "s">>>>].type = "dir"

(***************************************************************************)
(* C19.  An Append on an existing file leaves it equal to its previous     *)
(* content, one newline, then `content`; no other node changes.            *)
(***************************************************************************)
C19_AppendAddsNewlineAndContent ==
  [][(pc = "body" /\ c.operation = "append" /\ ~C4_BadPath(c.path)
        /\ Resolve(c.path) \in DOMAIN fs /\ fs[Resolve(c.path)].type = "file")
       => LET cp == Resolve(c.path)
              text == IF c.content = Undefined THEN <<>> ELSE c.content
          IN /\ DOMAIN fs' = DOMAIN fs
             /\ fs'[cp] = [type |-> "file", data |-> fs[cp].data \o <<"\n">> \o text]
             /\ \A x \in DOMAIN fs \ {cp} : fs'[x] = fs[x]]_vars

C19_Witness ==
  /\ pc = "loop" /\ verdict = "append" /\ Len(applied) = 2
  /\ applied[1].op = "append" /\ applied[2].op = "append"
  /\ fs[Resolve(P_readme)].data = S_abab \o <<"\n">> \o S_c \o <<"\n">>

============================================================================
